---- MODULE Spec2Model ----
(***************************************************************************)
(* A model of sculptor's persistence engine, FileIO<T, S> (src/lib.rs),    *)
(* over a small file system: directories, files holding text, a Unix       *)
(* clock in seconds and the EDITOR environment variable.                   *)
(*                                                                         *)
(* Text is a sequence of tokens, file names are sequences of characters,   *)
(* and a path is a record [abs, comps]: whether it starts at the root and  *)
(* the sequence of its components.                                         *)
(***************************************************************************)
EXTENDS Integers, Sequences, FiniteSets, TLC

\* The clock runs from MaxClock - 1 (a one-digit second) to MaxClock.
MaxClock == 10

\* The number of operations of one behaviour.
MaxOps == 2

ClockStart == MaxClock - 1

\* ---------------------------------------------------------------- values

\* The values of T: two encodable ones and one whose serialization fails.
Unencodable == "unencodable"

Encodable == {"x", "y"}

Values == Encodable \cup {Unencodable}

NoVal == "none"

Ok(v) == [ok |-> TRUE, kind |-> "Ok", val |-> v]

Err(k) == [ok |-> FALSE, kind |-> k, val |-> NoVal]

\* ------------------------------------------------------ encoding strategy

Tok(k, s) == [k |-> k, s |-> s]

LBrace == Tok("punct", "{")

RBrace == Tok("punct", "}")

Colon == Tok("punct", ":")

Equals == Tok("punct", "=")

\* serde_json::to_string of T = {name: string}: {"name":"<v>"}
JsonText(v) == << LBrace, Tok("str", "name"), Colon, Tok("str", v), RBrace >>

\* toml::to_string of the same value: name = "<v>"
TomlText(v) == << Tok("ident", "name"), Equals, Tok("str", v) >>

\* Whether text is a proper prefix of some JSON document of T: the parser
\* reaches the end of the input while it still expects more.
JsonTruncated(text) ==
    /\ Len(text) < Len(JsonText("x"))
    /\ \A i \in 1..Len(text) :
          IF i = 4 THEN text[i].k = "str" ELSE text[i] = JsonText("x")[i]

\* impl SerdeStr<SerdeViaJson>::de_from_str: serde_json::from_str, its error
\* converted by `?` (From<serde_json::Error> for io::Error: an end-of-input
\* error becomes UnexpectedEof, a syntax or data error InvalidData).
JsonDeFromStr(text) ==
    IF /\ Len(text) = Len(JsonText("x"))
       /\ text[4].k = "str"
       /\ text = JsonText(text[4].s)
    THEN Ok(text[4].s)
    ELSE IF JsonTruncated(text) THEN Err("UnexpectedEof")
    ELSE Err("InvalidData")

\* impl SerdeStr<SerdeViaToml>::de_from_str: every toml error is mapped to
\* InvalidData.
TomlDeFromStr(text) ==
    IF /\ Len(text) = Len(TomlText("x"))
       /\ text[3].k = "str"
       /\ text = TomlText(text[3].s)
    THEN Ok(text[3].s)
    ELSE Err("InvalidData")

\* ser_to_string of either strategy; the text is in .val.
JsonSerToString(v) == IF v \in Encodable THEN Ok(JsonText(v)) ELSE Err("InvalidData")

TomlSerToString(v) == IF v \in Encodable THEN Ok(TomlText(v)) ELSE Err("InvalidData")

Strategies == {"json", "toml"}

de_from_str(s, text) == IF s = "json" THEN JsonDeFromStr(text) ELSE TomlDeFromStr(text)

ser_to_string(s, v) == IF s = "json" THEN JsonSerToString(v) ELSE TomlSerToString(v)

\* ------------------------------------------------------------ file names

Dot == "."

\* i64::to_string of a non-negative timestamp: its decimal digits.
Digit(d) == CASE d = 0 -> "0" [] d = 1 -> "1" [] d = 2 -> "2" [] d = 3 -> "3"
              [] d = 4 -> "4" [] d = 5 -> "5" [] d = 6 -> "6" [] d = 7 -> "7"
              [] d = 8 -> "8" [] OTHER -> "9"

RECURSIVE TimestampToString(_)
TimestampToString(n) ==
    IF n < 10 THEN << Digit(n) >>
    ELSE TimestampToString(n \div 10) \o << Digit(n % 10) >>

BakSuffix == << ".", "b", "a", "k" >>

\* The index of the last dot of a name, 0 when it has none.
LastDot(name) ==
    LET dots == {i \in 1..Len(name) : name[i] = Dot}
    IN  IF dots = {} THEN 0 ELSE CHOOSE i \in dots : \A j \in dots : j <= i

\* Path::extension and Path::file_stem split the file name at its last dot; a
\* name with no dot, or whose only dot is its first character, has no
\* extension and is its own stem.
HasExtension(name) == LastDot(name) > 1

Extension(name) ==
    IF HasExtension(name) THEN SubSeq(name, LastDot(name) + 1, Len(name)) ELSE << >>

FileStem(name) ==
    IF HasExtension(name) THEN SubSeq(name, 1, LastDot(name) - 1) ELSE name

\* Path::with_extension on the file name: the stem, then a dot and the new
\* extension when that is not empty.
WithExtension(name, ext) ==
    IF ext = << >> THEN FileStem(name) ELSE FileStem(name) \o << Dot >> \o ext

\* The backup's file name as save builds it (lib.rs 118-128).
BackupName(name, t) ==
    WithExtension(name, Extension(name) \o << Dot >> \o TimestampToString(t) \o BakSuffix)

\* ----------------------------------------------------------------- paths

CfgJson == << "c", "f", "g", ".", "j", "s", "o", "n" >>

Cfg == << "c", "f", "g" >>

Rel(comps) == [abs |-> FALSE, comps |-> comps]

\* cfg.json in the current directory, d/e/cfg, the root and the empty path.
BarePath == Rel(<< CfgJson >>)

NestedPath == Rel(<< << "d" >>, << "e" >>, Cfg >>)

RootPath == [abs |-> TRUE, comps |-> << >>]

EmptyPath == Rel(<< >>)

Paths == {BarePath, NestedPath, RootPath, EmptyPath}

\* (mutant) a bare file name is taken to have no parent either.
HasParentNotBare(p) == Len(p.comps) > 1

\* Path::parent: None for the root and for the empty path.
HasParent(p) == p.comps # << >>

Parent(p) == [abs |-> p.abs, comps |-> SubSeq(p.comps, 1, Len(p.comps) - 1)]

FileName(p) == p.comps[Len(p.comps)]

\* The sibling of p named name.
Sibling(p, name) == [abs |-> p.abs, comps |-> Parent(p).comps \o << name >>]

BackupPath(p, t) == Sibling(p, BackupName(FileName(p), t))

\* p and the directories above it, the root and the current directory
\* excepted: they always exist.
Ancestors(q) == {[abs |-> q.abs, comps |-> SubSeq(q.comps, 1, n)] : n \in 1..Len(q.comps)}

IsDir(ds, q) == q.comps = << >> \/ q \in ds

\* Path::exists: the empty path names nothing.
Exists(ds, fs, q) == q # EmptyPath /\ (IsDir(ds, q) \/ q \in DOMAIN fs)

\* ------------------------------------------------- the engine's operations

\* The system call an operation fails at, for a reason outside the model
\* (permissions, the device): creating a directory, the rename, or the write
\* once the file is open.
Fails == {"none", "mkdir", "rename", "write"}

\* (mutant) fs::create_dir in place of fs::create_dir_all: only the parent
\* itself is created.
EnsureParentOneLevel(ds, p, fail) ==
    IF ~HasParent(p) THEN [res |-> Err("InvalidInput"), dirs |-> ds]
    ELSE IF fail = "mkdir" /\ Ancestors(Parent(p)) \ ds # {}
    THEN [res |-> Err("PermissionDenied"), dirs |-> ds]
    ELSE [res |-> Ok(NoVal), dirs |-> ds \cup (Ancestors(Parent(p)) \cap {Parent(p)})]

\* FileIO::ensure_parent: InvalidInput when the path has no parent, else
\* fs::create_dir_all(parent), which creates every missing ancestor and does
\* nothing for the empty parent of a bare file name.
EnsureParent(ds, p, fail) ==
    IF ~HasParent(p) THEN [res |-> Err("InvalidInput"), dirs |-> ds]
    ELSE IF fail = "mkdir" /\ Ancestors(Parent(p)) \ ds # {}
    THEN [res |-> Err("PermissionDenied"), dirs |-> ds]
    ELSE [res |-> Ok(NoVal), dirs |-> ds \cup Ancestors(Parent(p))]

\* FileIO::load_str: ensure_parent, canonicalize (NotFound when the file is
\* absent), read_to_string, de_from_str.
LoadStr(ds, fs, p, s, fail) ==
    LET e == EnsureParent(ds, p, fail)
    IN  IF ~e.res.ok THEN [res |-> e.res, dirs |-> e.dirs]
        ELSE IF p \notin DOMAIN fs THEN [res |-> Err("NotFound"), dirs |-> e.dirs]
        ELSE [res |-> de_from_str(s, fs[p]), dirs |-> e.dirs]

\* fs::rename(from, to): the file moves, replacing whatever file is at to.
Rename(fs, from, to) ==
    [q \in (DOMAIN fs \ {from}) \cup {to} |-> IF q = to THEN fs[from] ELSE fs[q]]

\* fs::write(p, text): creates or truncates the file, then writes the text.
Write(fs, p, text) ==
    [q \in DOMAIN fs \cup {p} |-> IF q = p THEN text ELSE fs[q]]

\* (mutant) the value is written first and the path renamed afterwards.
SaveWriteFirst(ds, fs, p, s, v, t, fail) ==
    LET e == EnsureParent(ds, p, fail)
        found == Exists(e.dirs, fs, p)
        text == ser_to_string(s, v)
        fs1 == Write(fs, p, text.val)
    IN  IF ~e.res.ok THEN [res |-> e.res, dirs |-> e.dirs, files |-> fs]
        ELSE IF ~text.ok THEN [res |-> text, dirs |-> e.dirs, files |-> fs]
        ELSE IF fail = "write"
        THEN [res |-> Err("StorageFull"), dirs |-> e.dirs, files |-> Write(fs, p, << >>)]
        ELSE IF found /\ fail = "rename"
        THEN [res |-> Err("PermissionDenied"), dirs |-> e.dirs, files |-> fs1]
        ELSE [res |-> Ok(NoVal), dirs |-> e.dirs,
              files |-> IF found THEN Rename(fs1, p, BackupPath(p, t)) ELSE fs1]

\* (mutant) the result of fs::rename is dropped and the save goes on.
SaveIgnoresRenameError(ds, fs, p, s, v, t, fail) ==
    LET e == EnsureParent(ds, p, fail)
        found == Exists(e.dirs, fs, p)
        fs1 == IF found /\ fail # "rename" THEN Rename(fs, p, BackupPath(p, t)) ELSE fs
        text == ser_to_string(s, v)
    IN  IF ~e.res.ok THEN [res |-> e.res, dirs |-> e.dirs, files |-> fs]
        ELSE IF ~text.ok THEN [res |-> text, dirs |-> e.dirs, files |-> fs1]
        ELSE IF fail = "write"
        THEN [res |-> Err("StorageFull"), dirs |-> e.dirs, files |-> Write(fs1, p, << >>)]
        ELSE [res |-> Ok(NoVal), dirs |-> e.dirs, files |-> Write(fs1, p, text.val)]

\* (mutant) the value is encoded before the old file is renamed.
SaveEncodeFirst(ds, fs, p, s, v, t, fail) ==
    LET e == EnsureParent(ds, p, fail)
        found == Exists(e.dirs, fs, p)
        fs1 == IF found THEN Rename(fs, p, BackupPath(p, t)) ELSE fs
        text == ser_to_string(s, v)
    IN  IF ~e.res.ok THEN [res |-> e.res, dirs |-> e.dirs, files |-> fs]
        ELSE IF ~text.ok THEN [res |-> text, dirs |-> e.dirs, files |-> fs]
        ELSE IF found /\ fail = "rename"
        THEN [res |-> Err("PermissionDenied"), dirs |-> e.dirs, files |-> fs]
        ELSE IF fail = "write"
        THEN [res |-> Err("StorageFull"), dirs |-> e.dirs, files |-> Write(fs1, p, << >>)]
        ELSE [res |-> Ok(NoVal), dirs |-> e.dirs, files |-> Write(fs1, p, text.val)]

\* FileIO::save (lib.rs): ensure_parent; when the path exists, rename it to
\* the backup path of the current second; then ser_to_string and fs::write.
Save(ds, fs, p, s, v, t, fail) ==
    LET e == EnsureParent(ds, p, fail)
        found == Exists(e.dirs, fs, p)
        fs1 == IF found THEN Rename(fs, p, BackupPath(p, t)) ELSE fs
        text == ser_to_string(s, v)
    IN  IF ~e.res.ok THEN [res |-> e.res, dirs |-> e.dirs, files |-> fs]
        ELSE IF found /\ fail = "rename"
        THEN [res |-> Err("PermissionDenied"), dirs |-> e.dirs, files |-> fs]
        ELSE IF ~text.ok THEN [res |-> text, dirs |-> e.dirs, files |-> fs1]
        ELSE IF fail = "write"
        THEN [res |-> Err("StorageFull"), dirs |-> e.dirs, files |-> Write(fs1, p, << >>)]
        ELSE [res |-> Ok(NoVal), dirs |-> e.dirs, files |-> Write(fs1, p, text.val)]

\* ---------------------------------- the earlier engine (src/file_io.rs)

\* FileIO::load (file_io.rs): the same steps as load_str.
LoadV1(ds, fs, p, s, fail) ==
    LET e == EnsureParent(ds, p, fail)
    IN  IF ~e.res.ok THEN [res |-> e.res, dirs |-> e.dirs]
        ELSE IF p \notin DOMAIN fs THEN [res |-> Err("NotFound"), dirs |-> e.dirs]
        ELSE [res |-> de_from_str(s, fs[p]), dirs |-> e.dirs]

\* FileIO::save (file_io.rs): ensure_parent, ser_to_string, fs::write; the
\* file at the path is overwritten in place.
SaveV1(ds, fs, p, s, v, fail) ==
    LET e == EnsureParent(ds, p, fail)
        text == ser_to_string(s, v)
    IN  IF ~e.res.ok THEN [res |-> e.res, dirs |-> e.dirs, files |-> fs]
        ELSE IF ~text.ok THEN [res |-> text, dirs |-> e.dirs, files |-> fs]
        ELSE IF fail = "write"
        THEN [res |-> Err("StorageFull"), dirs |-> e.dirs, files |-> Write(fs, p, << >>)]
        ELSE [res |-> Ok(NoVal), dirs |-> e.dirs, files |-> Write(fs, p, text.val)]

\* FileIO::load_or_init (file_io.rs): load; on any error init() is saved by
\* the plain save and returned.
LoadOrInitV1(ds, fs, p, s, initv, fail) ==
    LET l == LoadV1(ds, fs, p, s, fail)
        sv == SaveV1(l.dirs, fs, p, s, initv, fail)
    IN  IF l.res.ok
        THEN [res |-> l.res, dirs |-> l.dirs, files |-> fs, init |-> FALSE]
        ELSE [res |-> IF sv.res.ok THEN Ok(initv) ELSE sv.res,
              dirs |-> sv.dirs, files |-> sv.files, init |-> TRUE]

\* (mutant) the old file is not renamed before the save.
BackupAndSaveNoBackup(ds, fs, p, s, v, t, fail) == SaveV1(ds, fs, p, s, v, fail)

\* FileIO::backup_and_save (file_io.rs): ensure_parent; when the path exists,
\* rename it to the backup path of the current second; then the plain save.
BackupAndSave(ds, fs, p, s, v, t, fail) ==
    LET e == EnsureParent(ds, p, fail)
        found == Exists(e.dirs, fs, p)
        fs1 == IF found THEN Rename(fs, p, BackupPath(p, t)) ELSE fs
    IN  IF ~e.res.ok THEN [res |-> e.res, dirs |-> e.dirs, files |-> fs]
        ELSE IF found /\ fail = "rename"
        THEN [res |-> Err("PermissionDenied"), dirs |-> e.dirs, files |-> fs]
        ELSE SaveV1(e.dirs, fs1, p, s, v, fail)

\* ------------------------------------------------------------------------

\* (mutant) the default is returned without being saved.
LoadOrInitNoSave(ds, fs, p, s, initv, t, fail) ==
    LET l == LoadStr(ds, fs, p, s, fail)
    IN  IF l.res.ok
        THEN [res |-> l.res, dirs |-> l.dirs, files |-> fs, init |-> FALSE]
        ELSE [res |-> Ok(initv), dirs |-> l.dirs, files |-> fs, init |-> TRUE]

\* (mutant) only an absent file is initialized; a decode error is returned.
LoadOrInitStrict(ds, fs, p, s, initv, t, fail) ==
    LET l == LoadStr(ds, fs, p, s, fail)
        sv == Save(l.dirs, fs, p, s, initv, t, fail)
    IN  IF l.res.ok \/ l.res.kind # "NotFound"
        THEN [res |-> l.res, dirs |-> l.dirs, files |-> fs, init |-> FALSE]
        ELSE [res |-> IF sv.res.ok THEN Ok(initv) ELSE sv.res,
              dirs |-> sv.dirs, files |-> sv.files, init |-> TRUE]

\* (mutant) a loaded value is saved back before it is returned.
LoadOrInitAlwaysSaves(ds, fs, p, s, initv, t, fail) ==
    LET l == LoadStr(ds, fs, p, s, fail)
        v == IF l.res.ok THEN l.res.val ELSE initv
        sv == Save(l.dirs, fs, p, s, v, t, fail)
    IN  [res |-> IF sv.res.ok THEN Ok(v) ELSE sv.res,
         dirs |-> sv.dirs, files |-> sv.files, init |-> ~l.res.ok]

\* (mutant) the default is saved by the plain save, which renames nothing.
LoadOrInitPlainSave(ds, fs, p, s, initv, t, fail) ==
    LoadOrInitV1(ds, fs, p, s, initv, fail)

\* FileIO::load_or_init: load_str; on any error init() is saved and returned.
LoadOrInit(ds, fs, p, s, initv, t, fail) ==
    LET l == LoadStr(ds, fs, p, s, fail)
        sv == Save(l.dirs, fs, p, s, initv, t, fail)
    IN  IF l.res.ok
        THEN [res |-> l.res, dirs |-> l.dirs, files |-> fs, init |-> FALSE]
        ELSE [res |-> IF sv.res.ok THEN Ok(initv) ELSE sv.res,
              dirs |-> sv.dirs, files |-> sv.files, init |-> TRUE]

\* What the editor subprocess does: it cannot be started, or it runs and
\* exits with success or with a failure status.
Outcomes == {"nospawn", "success", "failure"}

\* (mutant) an unset EDITOR is reported like a failed editor.
EditUnsetIsOther(env, outcome) ==
    IF env = "unset" THEN [res |-> Err("Other"), spawned |-> FALSE]
    ELSE IF outcome = "nospawn" THEN [res |-> Err("NotFound"), spawned |-> FALSE]
    ELSE IF outcome = "failure" THEN [res |-> Err("Other"), spawned |-> TRUE]
    ELSE [res |-> Ok(NoVal), spawned |-> TRUE]

\* (mutant) the editor's exit status is not looked at.
EditIgnoresStatus(env, outcome) ==
    IF env = "unset" THEN [res |-> Err("NotFound"), spawned |-> FALSE]
    ELSE IF outcome = "nospawn" THEN [res |-> Err("NotFound"), spawned |-> FALSE]
    ELSE [res |-> Ok(NoVal), spawned |-> TRUE]

\* FileIO::edit: NotFound when EDITOR is unset; else the command is run with
\* the path as its argument and a failure status becomes an Other error.
Edit(env, outcome) ==
    IF env = "unset" THEN [res |-> Err("NotFound"), spawned |-> FALSE]
    ELSE IF outcome = "nospawn" THEN [res |-> Err("NotFound"), spawned |-> FALSE]
    ELSE IF outcome = "failure" THEN [res |-> Err("Other"), spawned |-> TRUE]
    ELSE [res |-> Ok(NoVal), spawned |-> TRUE]

\* The texts an editor session may leave in the file: empty, cut short, an
\* object with no name field, and the text of a value under either strategy.
EditTexts ==
    { << >>,
      << LBrace, Tok("str", "name"), Colon >>,
      << LBrace, RBrace >>,
      JsonText("y"),
      TomlText("y") }

\* ------------------------------------------------------------------ state

VARIABLES
    fio,     \* the accessor: [path, serde], fixed by FileIO::new
    dirs,    \* the directories that exist (besides the root and the cwd)
    files,   \* the files that exist: path -> text
    clock,   \* the Unix time in seconds
    nops,    \* the number of operations called so far
    last,    \* the last operation: its input and its result
    prev,    \* the operation before it, in brief
    computed,  \* provider: app -> number of ProjectDirs::from computations
    returned,  \* provider: app -> method -> the values its calls returned
    calls,     \* provider: number of calls made
    panicked,  \* provider: the expect() in lazy_project_dirs has panicked
    pc,        \* concurrent callers: caller -> the step it is at
    loc,       \* concurrent callers: caller -> its operation and locals
    hist       \* concurrent callers: what the reading caller met

vars == << fio, dirs, files, clock, nops, last, prev,
          computed, returned, calls, panicked, pc, loc, hist >>

\* The state of the engine and its file system, of the directory provider,
\* and of two concurrent callers.
engineVars == << fio, dirs, files, clock, nops, last, prev >>
providerVars == << computed, returned, calls, panicked >>
callerVars == << pc, loc, hist >>

NoFiles == [q \in {} |-> << >>]

\* The record of an operation: v is the value saved or produced by init,
\* found whether the path existed when it was called, env the EDITOR variable
\* edit read, exit the exit status of the editor it ran.
Op(op, v, fail, res, init, env, spawned) ==
    [op |-> op, v |-> v, fail |-> fail, res |-> res, t |-> clock,
     found |-> Exists(dirs, files, fio.path), init |-> init,
     env |-> env, spawned |-> spawned, exit |-> "none"]

Brief(l) == [op |-> l.op, v |-> l.v, ok |-> l.res.ok, found |-> l.found, init |-> l.init]

\* --- the directory provider (lib.rs 7-43, the same code as project_info.rs)

\* The types that implement AppAuthor, and the methods of ProjectInfo.
Apps == {"a", "b"}
Methods == {"project_dirs", "config_dir", "data_dir", "cache_dir", "state_dir"}

\* ProjectDirs::from("", author, app_name): the directories of the identity,
\* None when no home directory can be determined.
ProjectDirsFrom(a, home) ==
    IF home
    THEN [ok |-> TRUE,
          val |-> [config |-> << a, "config" >>, data |-> << a, "data" >>,
                   cache |-> << a, "cache" >>, state |-> << a, "state" >>]]
    ELSE [ok |-> FALSE, val |-> NoVal]

\* lazy_project_dirs: Lazy::new on every call, a Lazy whose cell is empty and
\* whose closure computes the directories of the identity.
lazy_project_dirs(a) == [cell |-> "empty", app |-> a]

\* Dereferencing a Lazy: the closure runs when the cell is empty, and the
\* cell's value is used otherwise.
Force(lazy, home) ==
    IF lazy.cell = "empty"
    THEN [runs |-> 1, value |-> ProjectDirsFrom(lazy.app, home)]
    ELSE [runs |-> 0, value |-> lazy.cell]

\* What method m of ProjectInfo takes from the directories.
MethodValue(pd, m) ==
    CASE m = "project_dirs" -> pd
      [] m = "config_dir" -> pd.config
      [] m = "data_dir" -> pd.data
      [] m = "cache_dir" -> pd.cache
      [] m = "state_dir" -> pd.state

ProviderInit ==
    /\ computed = [a \in Apps |-> 0]
    /\ returned = [a \in Apps |-> [m \in Methods |-> {}]]
    /\ calls = 0
    /\ panicked = FALSE

\* --- two concurrent callers of one accessor

Callers == {"s", "l"}

Other(p) == IF p = "s" THEN "l" ELSE "s"

\* The locals of a caller: its operation and argument (the value saved, or
\* the value init produces), what exists() told it, the file it has open (fd
\* is the name that file has now), the second of its rename, whether it
\* called init, and its result.
Locals(op, arg) ==
    [op |-> op, arg |-> arg, found |-> FALSE, file |-> "none", fd |-> EmptyPath,
     t |-> 0, init |-> FALSE, res |-> Ok(NoVal)]

CallersIdle ==
    /\ pc = [p \in Callers |-> "idle"]
    /\ loc = [p \in Callers |-> Locals("none", NoVal)]
    /\ hist = [old |-> NoVal, at |-> "none"]

\* FileIO::new does no I/O. The file is absent, or present with any text
\* (its directory then exists).
Init ==
    /\ fio \in [path : Paths, serde : Strategies]
    /\ clock = ClockStart
    /\ nops = 0
    /\ \/ dirs = {} /\ files = NoFiles
       \/ /\ HasParent(fio.path)
          /\ dirs = Ancestors(Parent(fio.path))
          /\ \E text \in EditTexts : files = Write(NoFiles, fio.path, text)
    /\ last = [op |-> "new", v |-> NoVal, fail |-> "none", res |-> Ok(NoVal), t |-> clock,
               found |-> FALSE, init |-> FALSE, env |-> "unset", spawned |-> FALSE,
               exit |-> "none"]
    /\ prev = Brief(last)
    /\ ProviderInit
    /\ CallersIdle

Record(l) ==
    /\ nops' = nops + 1
    /\ last' = l
    /\ prev' = Brief(last)

\* (mutant) the file is opened for reading with the create flag: an absent
\* file comes into being, empty.
DoLoadCreates ==
    /\ nops < MaxOps
    /\ LET r == LoadStr(dirs, files, fio.path, fio.serde, "none")
       IN  /\ dirs' = r.dirs
           /\ files' = IF r.res.kind = "NotFound" THEN Write(files, fio.path, << >>)
                       ELSE files
           /\ Record(Op("load", NoVal, "none", r.res, FALSE, "unset", FALSE))
           /\ UNCHANGED << fio, clock >>
           /\ UNCHANGED << providerVars, callerVars >>

\* A failure is injected only where the operation reaches that system call.
DoLoad ==
    /\ nops < MaxOps
    /\ \E fail \in {"none", "mkdir"} :
        LET r == LoadStr(dirs, files, fio.path, fio.serde, fail)
        IN  /\ fail = "none" \/ r # LoadStr(dirs, files, fio.path, fio.serde, "none")
            /\ dirs' = r.dirs
            /\ Record(Op("load", NoVal, fail, r.res, FALSE, "unset", FALSE))
            /\ UNCHANGED << fio, files, clock >>
            /\ UNCHANGED << providerVars, callerVars >>

DoSave ==
    /\ nops < MaxOps
    /\ \E v \in Values, fail \in Fails :
        LET r == Save(dirs, files, fio.path, fio.serde, v, clock, fail)
        IN  /\ fail = "none" \/ r # Save(dirs, files, fio.path, fio.serde, v, clock, "none")
            /\ dirs' = r.dirs
            /\ files' = r.files
            /\ Record(Op("save", v, fail, r.res, FALSE, "unset", FALSE))
            /\ UNCHANGED << fio, clock >>
            /\ UNCHANGED << providerVars, callerVars >>

\* init's value is recorded when init is called.
DoLoadOrInit ==
    /\ nops < MaxOps
    /\ \E v \in Values, fail \in Fails :
        LET r == LoadOrInit(dirs, files, fio.path, fio.serde, v, clock, fail)
        IN  /\ fail = "none"
               \/ r # LoadOrInit(dirs, files, fio.path, fio.serde, v, clock, "none")
            /\ dirs' = r.dirs
            /\ files' = r.files
            /\ Record(Op("load_or_init", IF r.init THEN v ELSE NoVal, fail, r.res,
                         r.init, "unset", FALSE))
            /\ UNCHANGED << fio, clock >>
            /\ UNCHANGED << providerVars, callerVars >>

\* edit: the editor, when it runs to a successful exit and the file's
\* directory exists, may have rewritten the file at the path.
DoEdit ==
    /\ nops < MaxOps
    /\ \E env \in {"unset", "set"}, outcome \in Outcomes :
        LET r == Edit(env, outcome)
        IN  /\ env = "set" \/ outcome = "nospawn"
            /\ Record([Op("edit", NoVal, "none", r.res, FALSE, env, r.spawned)
                          EXCEPT !.exit = IF r.spawned THEN outcome ELSE "none"])
            /\ \/ UNCHANGED files
               \/ /\ r.res.ok
                  /\ HasParent(fio.path)
                  /\ IsDir(dirs, Parent(fio.path))
                  /\ \E text \in EditTexts : files' = Write(files, fio.path, text)
            /\ UNCHANGED << fio, dirs, clock >>
            /\ UNCHANGED << providerVars, callerVars >>

\* A second passes.
Tick ==
    /\ clock < MaxClock
    /\ clock' = clock + 1
    /\ UNCHANGED << fio, dirs, files, nops, last, prev >>
    /\ UNCHANGED << providerVars, callerVars >>

Next == DoLoad \/ DoSave \/ DoLoadOrInit \/ DoEdit \/ Tick

Spec == Init /\ [][Next]_vars

\* The operations of the earlier engine (src/file_io.rs) on the same state.
DoLoadV1 ==
    /\ nops < MaxOps
    /\ \E fail \in {"none", "mkdir"} :
        LET r == LoadV1(dirs, files, fio.path, fio.serde, fail)
        IN  /\ fail = "none" \/ r # LoadV1(dirs, files, fio.path, fio.serde, "none")
            /\ dirs' = r.dirs
            /\ Record(Op("load", NoVal, fail, r.res, FALSE, "unset", FALSE))
            /\ UNCHANGED << fio, files, clock >>
            /\ UNCHANGED << providerVars, callerVars >>

DoSaveV1 ==
    /\ nops < MaxOps
    /\ \E v \in Values, fail \in Fails :
        LET r == SaveV1(dirs, files, fio.path, fio.serde, v, fail)
        IN  /\ fail = "none" \/ r # SaveV1(dirs, files, fio.path, fio.serde, v, "none")
            /\ dirs' = r.dirs
            /\ files' = r.files
            /\ Record(Op("save", v, fail, r.res, FALSE, "unset", FALSE))
            /\ UNCHANGED << fio, clock >>
            /\ UNCHANGED << providerVars, callerVars >>

DoLoadOrInitV1 ==
    /\ nops < MaxOps
    /\ \E v \in Values, fail \in Fails :
        LET r == LoadOrInitV1(dirs, files, fio.path, fio.serde, v, fail)
        IN  /\ fail = "none"
               \/ r # LoadOrInitV1(dirs, files, fio.path, fio.serde, v, "none")
            /\ dirs' = r.dirs
            /\ files' = r.files
            /\ Record(Op("load_or_init", IF r.init THEN v ELSE NoVal, fail, r.res,
                         r.init, "unset", FALSE))
            /\ UNCHANGED << fio, clock >>
            /\ UNCHANGED << providerVars, callerVars >>

DoBackupAndSave ==
    /\ nops < MaxOps
    /\ \E v \in Values, fail \in Fails :
        LET r == BackupAndSave(dirs, files, fio.path, fio.serde, v, clock, fail)
        IN  /\ fail = "none"
               \/ r # BackupAndSave(dirs, files, fio.path, fio.serde, v, clock, "none")
            /\ dirs' = r.dirs
            /\ files' = r.files
            /\ Record(Op("backup_and_save", v, fail, r.res, FALSE, "unset", FALSE))
            /\ UNCHANGED << fio, clock >>
            /\ UNCHANGED << providerVars, callerVars >>

NextV1 == DoLoadV1 \/ DoSaveV1 \/ DoLoadOrInitV1 \/ DoBackupAndSave \/ Tick

SpecV1 == Init /\ [][NextV1]_vars

\* ------------------------------------------------ the directory provider

MaxCalls == 3

\* One call of a method of ProjectInfo: it calls lazy_project_dirs and
\* dereferences the Lazy it gets; the closure panics (expect) on None.
DoProjectInfo ==
    /\ calls < MaxCalls
    /\ ~panicked
    /\ \E a \in Apps, m \in Methods, home \in BOOLEAN :
        LET lazy == Force(lazy_project_dirs(a), home)
        IN  /\ calls' = calls + 1
            /\ computed' = [computed EXCEPT ![a] = @ + lazy.runs]
            /\ IF lazy.value.ok
               THEN /\ returned' = [returned EXCEPT
                                      ![a][m] = @ \cup {MethodValue(lazy.value.val, m)}]
                    /\ panicked' = FALSE
               ELSE /\ panicked' = TRUE
                    /\ UNCHANGED returned
    /\ UNCHANGED << engineVars, callerVars >>

InitDirs ==
    /\ Init
    /\ fio = [path |-> NestedPath, serde |-> "json"]
    /\ files = NoFiles

NextDirs == DoProjectInfo

SpecDirs == InitDirs /\ [][NextDirs]_vars

\* ------------------------------------- two concurrent callers, step by step
\* A caller takes one system call at a time; what it computes in memory
\* goes with the system call that follows.

Goto(p, label) == pc' = [pc EXCEPT ![p] = label]

\* The caller returns res.
Finish(p, res) ==
    /\ pc' = [pc EXCEPT ![p] = "done"]
    /\ loc' = [loc EXCEPT ![p].res = res, ![p].file = "none"]

\* load_str failed with err: load returns it, load_or_init calls init and
\* goes on to save what it produced.
LoadFailed(p, err) ==
    IF loc[p].op = "load"
    THEN Finish(p, err)
    ELSE /\ pc' = [pc EXCEPT ![p] = "ensure"]
         /\ loc' = [loc EXCEPT ![p].init = TRUE]

\* load_str: ensure_parent.
LoadEnsure ==
    \E p \in Callers :
        /\ pc[p] = "l_ensure"
        /\ LET e == EnsureParent(dirs, fio.path, "none")
           IN  /\ dirs' = e.dirs
               /\ IF e.res.ok
                  THEN Goto(p, "canon") /\ UNCHANGED loc
                  ELSE LoadFailed(p, e.res)
        /\ UNCHANGED << fio, files, clock, nops, last, prev, hist, providerVars >>

\* load_str: path.canonicalize() fails with NotFound when nothing is at the path.
LoadCanon ==
    \E p \in Callers :
        /\ pc[p] = "canon"
        /\ hist' = [hist EXCEPT !.at = pc[Other(p)]]
        /\ IF Exists(dirs, files, fio.path)
           THEN Goto(p, "read") /\ UNCHANGED loc
           ELSE LoadFailed(p, Err("NotFound"))
        /\ UNCHANGED << fio, dirs, files, clock, nops, last, prev, providerVars >>

\* load_str: fs::read_to_string opens the path and reads what the file holds,
\* then de_from_str decodes it.
LoadRead ==
    \E p \in Callers :
        /\ pc[p] = "read"
        /\ hist' = [hist EXCEPT !.at = pc[Other(p)]]
        /\ IF fio.path \in DOMAIN files
           THEN LET r == de_from_str(fio.serde, files[fio.path])
                IN  IF r.ok THEN Finish(p, r) ELSE LoadFailed(p, r)
           ELSE LoadFailed(p, Err("NotFound"))
        /\ UNCHANGED << fio, dirs, files, clock, nops, last, prev, providerVars >>

\* save: ensure_parent.
SaveEnsure ==
    \E p \in Callers :
        /\ pc[p] = "ensure"
        /\ LET e == EnsureParent(dirs, fio.path, "none")
           IN  /\ dirs' = e.dirs
               /\ IF e.res.ok
                  THEN Goto(p, "exists") /\ UNCHANGED loc
                  ELSE Finish(p, e.res)
        /\ UNCHANGED << fio, files, clock, nops, last, prev, hist, providerVars >>

\* save: self.path.exists().
SaveExists ==
    \E p \in Callers :
        /\ pc[p] = "exists"
        /\ LET found == Exists(dirs, files, fio.path)
           IN  /\ loc' = [loc EXCEPT ![p].found = found]
               /\ Goto(p, IF found THEN "rename" ELSE "create")
        /\ UNCHANGED << fio, dirs, files, clock, nops, last, prev, hist, providerVars >>

\* The name of an open file after from is renamed to to: the file that was
\* at from is now at to, the file that was at to has no name any more.
Moved(l, from, to) ==
    IF l.file = "open" /\ l.fd = from THEN [l EXCEPT !.fd = to]
    ELSE IF l.file = "open" /\ l.fd = to THEN [l EXCEPT !.file = "unlinked"]
    ELSE l

\* (mutant) the backup is a copy and the file stays at the path.
SaveRenameCopies ==
    \E p \in Callers :
        /\ pc[p] = "rename"
        /\ IF fio.path \in DOMAIN files
           THEN /\ files' = Write(files, BackupPath(fio.path, clock), files[fio.path])
                /\ loc' = [loc EXCEPT ![p].t = clock]
                /\ Goto(p, "create")
           ELSE /\ Finish(p, Err("NotFound"))
                /\ UNCHANGED files
        /\ UNCHANGED << fio, dirs, clock, nops, last, prev, hist, providerVars >>

\* save: the backup path is built from the second read now, and fs::rename
\* moves the file there; it fails with NotFound when the file is gone.
SaveRename ==
    \E p \in Callers :
        /\ pc[p] = "rename"
        /\ IF fio.path \in DOMAIN files
           THEN LET to == BackupPath(fio.path, clock)
                IN  /\ files' = Rename(files, fio.path, to)
                    /\ loc' = [q \in Callers |->
                                  IF q = p THEN [loc[q] EXCEPT !.t = clock]
                                  ELSE Moved(loc[q], fio.path, to)]
                    /\ Goto(p, "create")
           ELSE /\ Finish(p, Err("NotFound"))
                /\ UNCHANGED files
        /\ UNCHANGED << fio, dirs, clock, nops, last, prev, hist, providerVars >>

\* save: ser_to_string, then fs::write opens the path: the file is created,
\* or emptied when one is there.
SaveCreate ==
    \E p \in Callers :
        /\ pc[p] = "create"
        /\ LET text == ser_to_string(fio.serde, loc[p].arg)
           IN  IF text.ok
               THEN /\ files' = Write(files, fio.path, << >>)
                    /\ loc' = [loc EXCEPT ![p].file = "open", ![p].fd = fio.path]
                    /\ Goto(p, "write")
               ELSE /\ Finish(p, text)
                    /\ UNCHANGED files
        /\ UNCHANGED << fio, dirs, clock, nops, last, prev, hist, providerVars >>

\* (mutant) the write stops before any of the text is written.
SaveWriteNothing ==
    \E p \in Callers :
        /\ pc[p] = "write"
        /\ Finish(p, IF loc[p].op = "save" THEN Ok(NoVal) ELSE Ok(loc[p].arg))
        /\ UNCHANGED << fio, dirs, files, clock, nops, last, prev, hist, providerVars >>

\* save: fs::write writes the text to the file it opened, wherever that file
\* is now, and save returns; load_or_init returns what init produced.
SaveWrite ==
    \E p \in Callers :
        /\ pc[p] = "write"
        /\ files' = IF loc[p].file = "open"
                    THEN Write(files, loc[p].fd, ser_to_string(fio.serde, loc[p].arg).val)
                    ELSE files
        /\ Finish(p, IF loc[p].op = "save" THEN Ok(NoVal) ELSE Ok(loc[p].arg))
        /\ UNCHANGED << fio, dirs, clock, nops, last, prev, hist, providerVars >>

\* One caller saves v while the other loads, or loads with an init, the same
\* path, which holds the text of a value.
InitConc ==
    /\ fio \in [path : {BarePath, NestedPath}, serde : Strategies]
    /\ clock = ClockStart
    /\ nops = 0
    /\ dirs = Ancestors(Parent(fio.path))
    /\ last = [op |-> "new", v |-> NoVal, fail |-> "none", res |-> Ok(NoVal), t |-> clock,
               found |-> FALSE, init |-> FALSE, env |-> "unset", spawned |-> FALSE,
               exit |-> "none"]
    /\ prev = Brief(last)
    /\ ProviderInit
    /\ \E old \in Encodable, v \in Values, op \in {"load", "load_or_init"} :
        \E initv \in IF op = "load" THEN {NoVal} ELSE Values :
            /\ files = Write(NoFiles, fio.path, ser_to_string(fio.serde, old).val)
            /\ pc = [p \in Callers |-> IF p = "s" THEN "ensure" ELSE "l_ensure"]
            /\ loc = [p \in Callers |-> IF p = "s" THEN Locals("save", v)
                                                   ELSE Locals(op, initv)]
            /\ hist = [old |-> old, at |-> "none"]

NextConc ==
    \/ LoadEnsure \/ LoadCanon \/ LoadRead
    \/ SaveEnsure \/ SaveExists \/ SaveRename \/ SaveCreate \/ SaveWrite
    \/ Tick

SpecConc == InitConc /\ [][NextConc]_vars

\* ------------------------------------------------------------- properties

\* The step is a call of the operation named op.
IsOp(op) == nops' = nops + 1 /\ last'.op = op

Path == fio.path

\* The text of value v under the accessor's strategy.
TextOf(v) == ser_to_string(fio.serde, v).val

\* Every file but the one at the path is as it was.
OthersKept == \A q \in DOMAIN files \ {Path} : q \in DOMAIN files' /\ files'[q] = files[q]

\* C1: a successful save(v) followed immediately by load() on the same path
\* returns a value equal to v, whatever the path held before the save.
C1_RoundTrip ==
    [][(last.op = "save" /\ last.res.ok /\ IsOp("load")) => last'.res = Ok(last.v)]_vars

C1_Witness ==
    /\ prev.op = "save" /\ prev.ok /\ prev.found
    /\ last.op = "load" /\ last.res = Ok(prev.v)

\* C4: load_or_init(init) on an absent path calls init; when it returns Ok
\* (it does unless a system call fails, the value cannot be encoded or the
\* path has no parent) it returns init's value, the path holds that value's
\* text and no other file is created or changed; and a load() that follows
\* returns the same value.
C4_MissingFileDefault ==
    [][/\ (IsOp("load_or_init") /\ ~Exists(dirs, files, Path)) =>
            /\ last'.init
            /\ (HasParent(Path) /\ last'.fail = "none" /\ last'.v \in Encodable)
                   => last'.res.ok
            /\ last'.res.ok =>
                  /\ last'.res.val = last'.v
                  /\ DOMAIN files' = DOMAIN files \cup {Path}
                  /\ files'[Path] = TextOf(last'.v)
                  /\ OthersKept
       /\ (last.op = "load_or_init" /\ ~last.found /\ last.res.ok /\ IsOp("load")) =>
            last'.res = Ok(last.v)
      ]_vars

C4_Witness ==
    /\ prev.op = "load_or_init" /\ prev.ok /\ ~prev.found /\ prev.init
    /\ last.op = "load" /\ last.res = Ok(prev.v)
    /\ DOMAIN files = {Path}

StartsWith(name, pre) == Len(name) >= Len(pre) /\ SubSeq(name, 1, Len(pre)) = pre

EndsWith(name, suf) ==
    Len(name) >= Len(suf) /\ SubSeq(name, Len(name) - Len(suf) + 1, Len(name)) = suf

\* q is a sibling of the path whose name is the path's file name followed by
\* a suffix that ends in .<seconds>.bak.
MatchesBackupPattern(q) ==
    /\ q # Path
    /\ Len(q.comps) = Len(Path.comps)
    /\ Parent(q) = Parent(Path)
    /\ StartsWith(FileName(q), FileName(Path))
    /\ \E t \in ClockStart..MaxClock :
          EndsWith(FileName(q), << Dot >> \o TimestampToString(t) \o BakSuffix)

\* C2: a successful save(v2) on a path that holds a file with content C adds
\* exactly one file, named by the backup pattern and holding C, and leaves
\* the encoding of v2 at the path, whatever backups the directory held.
C2_BackupOnOverwrite ==
    [][(IsOp("save") /\ last'.res.ok /\ Path \in DOMAIN files) =>
          /\ files'[Path] = TextOf(last'.v)
          /\ \E b \in DOMAIN files' :
                /\ DOMAIN files' \ DOMAIN files = {b}
                /\ MatchesBackupPattern(b)
                /\ files'[b] = files[Path]
      ]_vars

\* C3: a successful save keeps the content it found in some backup file and
\* leaves every backup of an earlier save in place with its content, also
\* when two saves read the same second.
C3_BackupsNeverLost ==
    [][(IsOp("save") /\ last'.res.ok) =>
          /\ Path \in DOMAIN files =>
                \E b \in DOMAIN files' \ {Path} : files'[b] = files[Path]
          /\ OthersKept
      ]_vars

\* C5: load_or_init(init) on a path whose text cannot be decoded calls init
\* and never returns the decode error: unless a system call fails or init's
\* value cannot be encoded it returns Ok with init's value, and whenever it
\* returns Ok the path holds that value's text in place of the corrupt one.
C5_CorruptFileOverride ==
    [][(/\ IsOp("load_or_init")
        /\ Path \in DOMAIN files
        /\ ~de_from_str(fio.serde, files[Path]).ok) =>
          /\ last'.init
          /\ last'.v \in Encodable =>
                /\ last'.res.kind \notin {"InvalidData", "UnexpectedEof"}
                /\ last'.fail = "none" => last'.res = Ok(last'.v)
          /\ last'.res.ok =>
                /\ last'.res.val = last'.v
                /\ files'[Path] = TextOf(last'.v)
      ]_vars

C5_Witness ==
    /\ last.op = "load_or_init" /\ last.found /\ last.init
    /\ last.res = Ok(last.v)
    /\ files[Path] = TextOf(last.v)
    /\ nops = 1

EngineOps == {"load", "save", "load_or_init"}

\* C6, as claimed: load, save and load_or_init on a path with no directory
\* part (a bare file name, or no component at all) fail with InvalidInput.
C6_BareNameInvalidInput ==
    (last.op \in EngineOps /\ Len(Path.comps) <= 1) => last.res.kind = "InvalidInput"

\* C6, amended: load, save and load_or_init fail with InvalidInput exactly on
\* the root and on the empty path; a bare file name has the current directory
\* as its parent and never fails that way.
C6_InvalidInput ==
    last.op \in EngineOps =>
        (last.res.kind = "InvalidInput" <=> Path \in {RootPath, EmptyPath})

C6_Witness ==
    /\ Path = EmptyPath
    /\ last.op = "load_or_init" /\ last.init /\ last.res = Err("InvalidInput")
    /\ files = NoFiles /\ dirs = {}

\* C7: a load() that fails while no system call fails returns NotFound when
\* the file is absent and InvalidData when its text cannot be decoded, under
\* both strategies.
C7_LoadErrorKinds ==
    (last.op = "load" /\ ~last.res.ok /\ last.fail = "none" /\ Path \in {BarePath, NestedPath})
        => last.res.kind = IF last.found THEN "InvalidData" ELSE "NotFound"

\* C8: unless creating a directory fails, save and load on a path with a
\* parent leave every ancestor of the path in place, creating the missing
\* ones and nothing else; the save then succeeds (for an encodable value,
\* no system call failing) with the file present, and the load creates them
\* even when it fails because the file is absent.
C8_ParentAutoCreation ==
    [][/\ (IsOp("save") /\ Path \in {BarePath, NestedPath} /\ last'.fail # "mkdir") =>
            /\ dirs' = dirs \cup Ancestors(Parent(Path))
            /\ (last'.fail = "none" /\ last'.v \in Encodable) =>
                  last'.res.ok /\ Path \in DOMAIN files'
       /\ (IsOp("load") /\ Path \in {BarePath, NestedPath} /\ last'.fail # "mkdir") =>
            dirs' = dirs \cup Ancestors(Parent(Path))
      ]_vars

C8_Witness ==
    /\ Path = NestedPath /\ nops = 1
    /\ last.op = "save" /\ ~last.found /\ last.res.ok
    /\ dirs = {Rel(<< << "d" >> >>), Rel(<< << "d" >>, << "e" >> >>)}
    /\ DOMAIN files = {Path}

\* C9: edit() with EDITOR unset fails with NotFound, starts no subprocess
\* and changes no file and no directory.
C9_EditorMissing ==
    [][(IsOp("edit") /\ last'.env = "unset") =>
          /\ last'.res = Err("NotFound")
          /\ ~last'.spawned
          /\ files' = files
          /\ dirs' = dirs
      ]_vars

C9_Witness ==
    /\ Path = NestedPath
    /\ last.op = "edit" /\ last.env = "unset" /\ last.res = Err("NotFound")
    /\ dirs = {} /\ files = NoFiles

\* C10: a save at second t that finds a file named n at the path moves it to
\* the sibling named n.<t>.bak, for every file name n.
C10_BackupNaming ==
    [][(IsOp("save") /\ Path \in DOMAIN files /\ last'.fail \notin {"mkdir", "rename"}) =>
          LET b == Sibling(Path, FileName(Path) \o << Dot >> \o TimestampToString(clock)
                                   \o BakSuffix)
          IN  b \in DOMAIN files' /\ files'[b] = files[Path]
      ]_vars

C13_EditOutcome ==
    [][(IsOp("edit") /\ last'.env = "set") =>
          /\ last'.res.ok <=> (last'.spawned /\ last'.exit = "success")
          /\ last'.exit = "failure" => last'.res = Err("Other")
          /\ last'.spawned <=> last'.exit # "none"
          /\ dirs' = dirs
      ]_vars

C13_Witness ==
    /\ prev.op = "edit" /\ prev.ok
    /\ last.op = "load" /\ last.found
    /\ last.res.kind \in {"InvalidData", "UnexpectedEof"}

\* C14: in a save that finds a file at the path, a failed rename ends the
\* save with that error and every file as it was; the path is written, or
\* the encoding error returned, only once the old content is at the backup
\* path.
C14_RenameBeforeWrite ==
    [][(IsOp("save") /\ Path \in DOMAIN files) =>
          /\ last'.fail = "rename" =>
                last'.res = Err("PermissionDenied") /\ files' = files
          /\ (files' # files \/ last'.res.ok \/ last'.res.kind = "InvalidData") =>
                /\ BackupPath(Path, clock) \in DOMAIN files'
                /\ files'[BackupPath(Path, clock)] = files[Path]
      ]_vars

C14_Witness ==
    /\ last.op = "save" /\ last.found /\ last.fail = "rename"
    /\ last.res = Err("PermissionDenied")
    /\ DOMAIN files = {Path} /\ files[Path] \in EditTexts

\* A proper prefix of text.
Partial(part, text) == Len(part) < Len(text) /\ part = SubSeq(text, 1, Len(part))

\* C15: when a save finds content C at the path and the encoding or the
\* write fails after the rename, the save returns an error, C is at the
\* backup path, and the path is absent (encoding failed) or holds a part of
\* the new text (the write failed).
C15_FailureWindow ==
    [][(/\ IsOp("save")
        /\ Path \in DOMAIN files
        /\ last'.fail = "write" \/ (last'.fail = "none" /\ last'.v = Unencodable)) =>
          /\ ~last'.res.ok
          /\ BackupPath(Path, clock) \in DOMAIN files'
          /\ files'[BackupPath(Path, clock)] = files[Path]
          /\ IF last'.fail = "write"
             THEN Path \in DOMAIN files' /\ Partial(files'[Path], TextOf(last'.v))
             ELSE Path \notin DOMAIN files'
      ]_vars

C15_Witness ==
    /\ nops = 1
    /\ last.op = "save" /\ last.found /\ last.v = Unencodable
    /\ last.res = Err("InvalidData")
    /\ DOMAIN files = {BackupPath(Path, last.t)}

\* C17: load_or_init on a path whose text decodes returns the decoded value
\* without calling init and without changing any file or directory; and a
\* second load_or_init with the same init, right after a first one (no system
\* call failing in either), changes nothing and returns what the first
\* returned.
C17_LoadOrInitIdempotent ==
    [][/\ (/\ IsOp("load_or_init")
           /\ Path \in DOMAIN files
           /\ de_from_str(fio.serde, files[Path]).ok) =>
             /\ ~last'.init
             /\ last'.res = de_from_str(fio.serde, files[Path])
             /\ files' = files
             /\ dirs' = dirs
       /\ (/\ last.op = "load_or_init" /\ last.fail = "none"
           /\ IsOp("load_or_init") /\ last'.fail = "none"
           /\ (last.init /\ last'.init) => last'.v = last.v) =>
             /\ files' = files
             /\ dirs' = dirs
             /\ last'.res = last.res
      ]_vars

C17_Witness ==
    /\ prev.op = "load_or_init" /\ prev.init /\ prev.ok /\ prev.found
    /\ last.op = "load_or_init" /\ ~last.init /\ last.res = Ok(prev.v)
    /\ Cardinality(DOMAIN files) = 2

\* C18: load_or_init of lib.rs on a path whose text cannot be decoded keeps
\* that text on disk: it is moved to the backup path of the current second
\* (or stays at the path when the rename fails). The load_or_init of
\* file_io.rs on the same state overwrites the file in place and adds none.
C18_CorruptTextKept ==
    [][(/\ IsOp("load_or_init")
        /\ Path \in DOMAIN files
        /\ ~de_from_str(fio.serde, files[Path]).ok) =>
          /\ LET at == IF last'.fail = "rename" THEN Path ELSE BackupPath(Path, clock)
             IN  at \in DOMAIN files' /\ files'[at] = files[Path]
          /\ LET r == LoadOrInitV1(dirs, files, Path, fio.serde, last'.v, "none")
             IN  last'.v \in Encodable =>
                    /\ r.res = Ok(last'.v)
                    /\ DOMAIN r.files = DOMAIN files
                    /\ r.files[Path] = TextOf(last'.v)
      ]_vars

C18_Witness ==
    /\ prev.op = "edit" /\ prev.ok
    /\ last.op = "load_or_init" /\ last.found /\ last.init /\ last.res.ok
    /\ files[BackupPath(Path, last.t)] \in EditTexts
    /\ ~de_from_str(fio.serde, files[BackupPath(Path, last.t)]).ok
    /\ files[Path] = TextOf(last.v)

\* C19: backup_and_save(v) of file_io.rs returns what save(v) of lib.rs
\* returns, and leaves the files and directories save(v) leaves, from the
\* same state, at the same second and with the same system call failing.
C19_BackupAndSaveIsSave ==
    [][IsOp("backup_and_save") =>
          LET r == Save(dirs, files, Path, fio.serde, last'.v, clock, last'.fail)
          IN  /\ last'.res = r.res
              /\ files' = r.files
              /\ dirs' = r.dirs
      ]_vars

C19_Witness ==
    /\ prev.op = "backup_and_save" /\ prev.ok
    /\ last.op = "backup_and_save" /\ last.found /\ last.res.ok
    /\ Cardinality(DOMAIN files) = 2
    /\ files[Path] = TextOf(last.v)

\* C12: for one application identity the directories are computed at most
\* once over any sequence of calls of the provider's methods, and all calls
\* of a method return the same directories.
C12_ComputedOnce ==
    \A a \in Apps :
        /\ computed[a] <= 1
        /\ \A m \in Methods : Cardinality(returned[a][m]) <= 1

\* The value saved, the value init produces, and the value the file held at
\* first, of the two concurrent callers.
SavedValue == loc["s"].arg
InitValue == loc["l"].arg
OldValue == hist.old

\* C16: a load concurrent with a save on a path that holds a valid file fails
\* with not-found exactly when it looked at the path after the save's rename
\* and before the save created the file again (or after a save that failed
\* to encode); before the rename it returns the old value, after the write
\* the new one, and the save that returns Ok leaves the new text at the path
\* and the old text at the backup path.
C16_LoadInRenameGap ==
    /\ (loc["l"].op = "load" /\ pc["l"] = "done") =>
          /\ loc["l"].res = Err("NotFound") <=>
                \/ hist.at = "create"
                \/ hist.at = "done" /\ ~loc["s"].res.ok
          /\ hist.at \in {"ensure", "exists", "rename"} => loc["l"].res = Ok(OldValue)
          /\ hist.at = "write" => loc["l"].res = de_from_str(fio.serde, << >>)
          /\ (hist.at = "done" /\ loc["s"].res.ok) => loc["l"].res = Ok(SavedValue)
    /\ (loc["l"].op = "load" /\ pc["s"] = "done" /\ loc["s"].res.ok) =>
          /\ files[Path] = TextOf(SavedValue)
          /\ files[BackupPath(Path, loc["s"].t)] = TextOf(OldValue)

C16_Witness ==
    /\ loc["l"].op = "load" /\ pc["l"] = "done" /\ pc["s"] = "done"
    /\ hist.at = "create"
    /\ loc["l"].res = Err("NotFound")
    /\ loc["s"].res.ok
    /\ files[Path] = TextOf(SavedValue)
    /\ de_from_str(fio.serde, files[Path]) = Ok(SavedValue)

\* Both concurrent callers have returned Ok, the one from load_or_init.
BothOk ==
    /\ loc["l"].op = "load_or_init"
    /\ pc["l"] = "done" /\ pc["s"] = "done"
    /\ loc["l"].res.ok /\ loc["s"].res.ok

====
